---- MODULE Spec2Model ----
(***************************************************************************)
(* A model of koishi-core's context-scope algebra (context.ts), of the     *)
(* command registry built by Context.command, and of the execution         *)
(* pipeline Command.execute (command.ts).                                  *)
(***************************************************************************)
EXTENDS Integers, Sequences, FiniteSets, Bags, TLC

VARIABLES
  \* one call of the context algebra: receiver, argument, method, returned value
  recv, arg, op, ret,
  \* the command registry of the App: app._commandMap, app._commands and the
  \* Command objects (by name), and how the last Context.command call ended
  _commandMap, _commands, cmds, regErr,
  \* one Command and one user: the command (config, _argsDef, _options, _action),
  \* the user record (authority, usage), the invocation being executed (argv),
  \* where Command.execute stands, and what it has done so far
  node, user, argv, pc, trace,
  \* the other invocations of the command that are in flight or have ended: each
  \* with its argv, where its execute stands, and what it has done
  others

algVars == <<recv, arg, op, ret>>
regVars == <<_commandMap, _commands, cmds, regErr>>
execVars == <<node, user, argv, pc, trace, others>>
vars == <<recv, arg, op, ret, _commandMap, _commands, cmds, regErr, node, user, argv, pc, trace,
          others>>

(***************************************************************************)
(* Bounds.                                                                 *)
(***************************************************************************)
\* user ids that occur in id lists are 1..MaxId; events also carry MaxId + 1
MaxId == 2

Ids == 1..MaxId
EventIds == 1..(MaxId + 1)
\* group and discuss ids that occur in the id lists of the starting contexts
OtherIds == {1}

(***************************************************************************)
(* Nullable arrays: null is <<>>, a non-null id array with the ids S is    *)
(* <<S>>.  Only membership, emptiness and (in stringify) the joined text   *)
(* of an array are ever read, so an array is kept as the set of its ids.   *)
(***************************************************************************)
Null == <<>>
Some(S) == <<S>>
Truthy(x) == x # Null
Val(x) == x[1]

\* meta.ts: enum contextTypes { user, group, discuss }; index 0..2 there, 1..3 here
contextTypeNames == <<"user", "group", "discuss">>
contextTypes(type) == CHOOSE i \in 1..3 : contextTypeNames[i] = type

\* koishi-utils set helpers over id arrays
union(array1, array2) == array1 \cup array2
intersection(array1, array2) == array1 \cap array2
difference(array1, array2) == array1 \ array2
\* contain(array1, array2): array1 holds every item of array2
utilContain(array1, array2) == \A item \in array2 : item \in array1

(***************************************************************************)
(* ContextScope.stringify: the text is kept as a sequence of tokens.       *)
(***************************************************************************)
RECURSIVE SortedSeq(_)
SortedSeq(S) ==
  IF S = {} THEN <<>>
  ELSE LET m == CHOOSE x \in S : \A y \in S : x <= y
       IN <<m>> \o SortedSeq(S \ {m})

RECURSIVE JoinIds(_)
\* idList.join(',')
JoinIds(list) ==
  IF Len(list) = 0 THEN <<>>
  ELSE IF Len(list) = 1 THEN <<ToString(list[1])>>
  ELSE <<ToString(list[1]), ",">> \o JoinIds(Tail(list))

stringifySegment(sub, index) ==
  LET include == sub[1]
      exclude == sub[2]
      type == contextTypeNames[index]
      sign == IF Truthy(include) THEN "+" ELSE "-"
      idList == IF Truthy(include) THEN Val(include) ELSE Val(exclude)
  IN <<sign, type, ":">> \o JoinIds(SortedSeq(idList))

stringify(scope) ==
  stringifySegment(scope[1], 1) \o <<";">> \o
  stringifySegment(scope[2], 2) \o <<";">> \o
  stringifySegment(scope[3], 3)

noopScope == << <<Some({}), Null>>, <<Some({}), Null>>, <<Some({}), Null>> >>
noopIdentifier == stringify(noopScope)

(***************************************************************************)
(* ContextScope.parse, on the same tokens.                                 *)
(***************************************************************************)
\* identifier.split(';'): the segments between the ';' tokens
RECURSIVE splitSegments(_, _)
splitSegments(tokens, current) ==
  IF Len(tokens) = 0 THEN <<current>>
  ELSE IF Head(tokens) = ";" THEN <<current>> \o splitSegments(Tail(tokens), <<>>)
  ELSE splitSegments(Tail(tokens), Append(current, Head(tokens)))

\* +n for the text of one number
ToNumber(text) == CHOOSE n \in 0..(MaxId + 2) : ToString(n) = text

\* list.split(',').map(n => +n), the array kept as the set of its ids
RECURSIVE splitIds(_)
splitIds(list) ==
  IF Len(list) = 0 THEN {}
  ELSE IF Head(list) = "," THEN splitIds(Tail(list))
  ELSE {ToNumber(Head(list))} \cup splitIds(Tail(list))

\* /^([+-])(user|group|discuss):(.+)$/.exec(segment): (.+) needs at least one
\* character after the colon
captures(segment) ==
  /\ Len(segment) >= 4
  /\ segment[1] \in {"+", "-"}
  /\ segment[2] \in {"user", "group", "discuss"}
  /\ segment[3] = ":"

\* the forEach of lines 32-38 from segment i on; a segment the pattern does not
\* capture throws INVALID_IDENTIFIER
RECURSIVE parseSegments(_, _, _)
parseSegments(segments, i, scope) ==
  IF i > Len(segments) THEN [ok |-> TRUE, scope |-> scope]
  ELSE LET segment == segments[i]
       IN IF ~captures(segment) THEN [ok |-> FALSE, scope |-> scope]
          ELSE LET sign == segment[1]
                   type == segment[2]
                   idList == splitIds(SubSeq(segment, 4, Len(segment)))
               IN parseSegments(segments, i + 1,
                    [scope EXCEPT ![contextTypes(type)] =
                       IF sign = "+" THEN <<Some(idList), Null>> ELSE <<Null, Some(idList)>>])

parse(text) == parseSegments(splitSegments(text, <<>>), 1, noopScope)

\* App._createContext: a Context is its scope; its identifier is derived from the
\* scope when the Context is made and never changes
createContext(scope) == [scope |-> scope]
identifier(ctx) == stringify(ctx.scope)

\* app.ts: the App is itself the Context that excludes nothing
appScope == << <<Null, Some({})>>, <<Null, Some({})>>, <<Null, Some({})>> >>
appContext == createContext(appScope)

(***************************************************************************)
(* Context algebra.                                                        *)
(***************************************************************************)
inverseSubMutant(sub) ==
  LET include == sub[1]
      exclude == sub[2]
  IN IF Truthy(include) THEN <<Null, Some(Val(include))>>
     ELSE <<Null, Some(Val(exclude))>>

inverseSub(sub) ==
  LET include == sub[1]
      exclude == sub[2]
  IN IF Truthy(include) THEN <<Null, Some(Val(include))>>
     ELSE <<Some(Val(exclude)), Some({})>>

inverse(ctx) == createContext([i \in 1..3 |-> inverseSub(ctx.scope[i])])

plusSubMutant(s1, s2) ==
  LET include1 == s1[1]
      exclude1 == s1[2]
      include2 == s2[1]
      exclude2 == s2[2]
  IN IF Truthy(include1)
     THEN IF Truthy(include2)
          THEN <<Some(union(Val(include1), Val(include2))), Null>>
          ELSE <<Null, Some(difference(Val(exclude2), Val(include1)))>>
     ELSE <<Null, IF Truthy(include2)
                  THEN Some(difference(Val(exclude1), Val(include2)))
                  ELSE Some(union(Val(exclude1), Val(exclude2)))>>

plusSub(s1, s2) ==
  LET include1 == s1[1]
      exclude1 == s1[2]
      include2 == s2[1]
      exclude2 == s2[2]
  IN IF Truthy(include1)
     THEN IF Truthy(include2)
          THEN <<Some(union(Val(include1), Val(include2))), Null>>
          ELSE <<Null, Some(difference(Val(exclude2), Val(include1)))>>
     ELSE <<Null, IF Truthy(include2)
                  THEN Some(difference(Val(exclude1), Val(include2)))
                  ELSE Some(intersection(Val(exclude1), Val(exclude2)))>>

plus(a, b) == createContext([i \in 1..3 |-> plusSub(a.scope[i], b.scope[i])])

minusSubMutant(s1, s2) ==
  LET include1 == s1[1]
      exclude1 == s1[2]
      include2 == s2[1]
      exclude2 == s2[2]
  IN IF Truthy(include1)
     THEN <<IF Truthy(include2)
            THEN Some(difference(Val(include1), Val(include2)))
            ELSE Some(intersection(Val(include1), Val(exclude2))), Null>>
     ELSE IF Truthy(include2)
          THEN <<Null, Some(union(Val(include2), Val(exclude1)))>>
          ELSE <<Some(difference(Val(exclude1), Val(exclude2))), Null>>
minusSub(s1, s2) ==
  LET include1 == s1[1]
      exclude1 == s1[2]
      include2 == s2[1]
      exclude2 == s2[2]
  IN IF Truthy(include1)
     THEN <<IF Truthy(include2)
            THEN Some(difference(Val(include1), Val(include2)))
            ELSE Some(intersection(Val(include1), Val(exclude2))), Null>>
     ELSE IF Truthy(include2)
          THEN <<Null, Some(union(Val(include2), Val(exclude1)))>>
          ELSE <<Some(difference(Val(exclude2), Val(exclude1))), Null>>

minus(a, b) == createContext([i \in 1..3 |-> minusSub(a.scope[i], b.scope[i])])

intersectSubMutant(s1, s2) ==
  LET include1 == s1[1]
      exclude1 == s1[2]
      include2 == s2[1]
      exclude2 == s2[2]
  IN IF Truthy(include1)
     THEN <<IF Truthy(include2)
            THEN Some(intersection(Val(include1), Val(include2)))
            ELSE Some(intersection(Val(include1), Val(exclude2))), Null>>
     ELSE IF Truthy(include2)
          THEN <<Some(difference(Val(include2), Val(exclude1))), Null>>
          ELSE <<Null, Some(union(Val(exclude1), Val(exclude2)))>>

intersectSub(s1, s2) ==
  LET include1 == s1[1]
      exclude1 == s1[2]
      include2 == s2[1]
      exclude2 == s2[2]
  IN IF Truthy(include1)
     THEN <<IF Truthy(include2)
            THEN Some(intersection(Val(include1), Val(include2)))
            ELSE Some(difference(Val(include1), Val(exclude2))), Null>>
     ELSE IF Truthy(include2)
          THEN <<Some(difference(Val(include2), Val(exclude1))), Null>>
          ELSE <<Null, Some(union(Val(exclude1), Val(exclude2)))>>

intersect(a, b) == createContext([i \in 1..3 |-> intersectSub(a.scope[i], b.scope[i])])

\* an event identity: meta.$ctxType and meta.$ctxId
Metas == [ctxType : {"user", "group", "discuss"}, ctxId : EventIds]

match(ctx, meta) ==
  LET sub == ctx.scope[contextTypes(meta.ctxType)]
      include == sub[1]
      exclude == sub[2]
  IN IF Truthy(include) THEN meta.ctxId \in Val(include)
     ELSE meta.ctxId \notin Val(exclude)

containSubMutant(s1, s2) ==
  LET include1 == s1[1]
      exclude1 == s1[2]
      include2 == s2[1]
      exclude2 == s2[2]
  IN IF Truthy(include1)
     THEN Truthy(include2) /\ utilContain(Val(include1), Val(include2))
     ELSE IF Truthy(include2)
          THEN intersection(Val(include2), Val(exclude1)) = {}
          ELSE utilContain(Val(exclude1), Val(exclude2))

containSub(s1, s2) ==
  LET include1 == s1[1]
      exclude1 == s1[2]
      include2 == s2[1]
      exclude2 == s2[2]
  IN IF Truthy(include1)
     THEN Truthy(include2) /\ utilContain(Val(include1), Val(include2))
     ELSE IF Truthy(include2)
          THEN intersection(Val(include2), Val(exclude1)) = {}
          ELSE utilContain(Val(exclude2), Val(exclude1))

contain(a, b) == \A i \in 1..3 : containSub(a.scope[i], b.scope[i])

(***************************************************************************)
(* The contexts a caller is given to start from: the App itself and the    *)
(* contexts ContextScope.parse yields for one segment (one identity type   *)
(* in include or exclude form, the other two left as in noopScope).        *)
(***************************************************************************)
SubscopeInputs(index) ==
  LET lists == IF index = 1 THEN SUBSET Ids ELSE SUBSET OtherIds
  IN {<<Some(S), Null>> : S \in lists} \cup {<<Null, Some(S)>> : S \in lists}

InputScopes ==
  UNION {{[i \in 1..3 |-> IF i = t THEN s ELSE noopScope[i]] : s \in SubscopeInputs(t)} : t \in 1..3}

InputContexts == {appContext} \cup {createContext(s) : s \in InputScopes}

CtxRet(c) == [kind |-> "ctx", ctx |-> c]
BoolRet(v) == [kind |-> "bool", val |-> v]

\* calls are chained: the receiver is the last result (after contain, the last receiver)
Receivers == IF ret.kind = "ctx" THEN {ret.ctx} ELSE {recv}
Arguments == InputContexts \cup {recv}

(***************************************************************************)
(* The command registry: Context.command.                                  *)
(***************************************************************************)
\* most commands the registry holds
MaxCmds == 2
\* most segments of a registered path
MaxSegs == 2

\* the words of a path, after path.toLowerCase()
Words == {"a", "b"}

\* rawName up to its first blank, split before each '.' and '/': a first segment
\* without separator, then segments that start with '.' or '/'
Segments(first) == [sep : IF first THEN {""} ELSE {".", "/"}, word : Words]

RECURSIVE PathsOfLen(_)
PathsOfLen(n) ==
  IF n = 1 THEN {<<s>> : s \in Segments(TRUE)}
  ELSE {Append(p, s) : p \in PathsOfLen(n - 1), s \in Segments(FALSE)}

Paths == UNION {PathsOfLen(n) : n \in 1..MaxSegs}

\* the contexts commands are registered from: the App, app.user(1), app.user(2)
userContext(id) == createContext([i \in 1..3 |-> IF i = 1 THEN <<Some({id}), Null>> ELSE noopScope[i]])
CallerContexts == {appContext, userContext(1), userContext(2)}

\* command.ts: defaultConfig, and the config records passed to Context.command
Undefined == "undefined"
defaultConfig == [authority |-> 1, description |-> Undefined]
\* { description, ...args[0] }: description is always a key of the passed record
PassedConfigs == { [description |-> Undefined], [description |-> "d"] }

\* Object.assign(target, source)
ObjectAssign(target, source) ==
  [k \in DOMAIN target |-> IF k \in DOMAIN source THEN source[k] ELSE target[k]]

\* a command name is the sequence of its dot-separated words; null is <<>>
NoCmd == <<>>
NoError == [message |-> "none", line |-> 0]
Error(message, line) == [message |-> message, line |-> line]

\* new Command(name, declaration, context): _registerAlias(name) binds the name,
\* which the caller has just found unbound, and the command joins app._commands
newCommand(st, name, context) ==
  [map |-> (name :> name) @@ st.map,
   list |-> Append(st.list, name),
   nodes |-> (name :> [name |-> name, context |-> context, parent |-> NoCmd,
                       children |-> <<>>, config |-> defaultConfig,
                       aliases |-> <<name>>, action |-> FALSE]) @@ st.nodes]

\* command.parent = parent; parent.children.push(command)
link(st, command, parent) ==
  [st EXCEPT !.nodes = [st.nodes EXCEPT ![command].parent = parent,
                                         ![parent].children = Append(@, command)]]

\* line 158: an existing parentless command is adopted when the parent contains it
canAdopt(parentCtx, commandCtx) == contain(parentCtx, commandCtx)

\* line 167: the context of a new command
newContextMutant(this, st, parent) == this
newContext(this, st, parent) ==
  IF parent # NoCmd THEN intersect(this, st.nodes[parent].context) ELSE this

\* line 168: the context of a new command is the noop Context
isNoopMutant(context) == FALSE
isNoop(context) == identifier(context) = noopIdentifier

\* the forEach over the segments, from segment i on; an error ends the walk and
\* keeps what the earlier segments did
RECURSIVE walk(_, _, _, _, _)
walk(this, st, segs, i, parent) ==
  IF i > Len(segs) THEN [st |-> st, parent |-> parent, error |-> NoError]
  ELSE
    LET segment == segs[i]
        word == segment.word
        name == IF segment.sep = "." THEN Append(parent, word) ELSE <<word>>
        command == IF name \in DOMAIN st.map THEN st.map[name] ELSE NoCmd
    IN IF command # NoCmd
       THEN IF parent # NoCmd
            THEN IF command = parent
                 THEN [st |-> st, parent |-> parent, error |-> Error("INVALID_SUBCOMMAND", 152)]
                 ELSE IF st.nodes[command].parent # NoCmd
                 THEN IF st.nodes[command].parent # parent
                      THEN [st |-> st, parent |-> parent, error |-> Error("INVALID_SUBCOMMAND", 156)]
                      ELSE walk(this, st, segs, i + 1, command)
                 ELSE IF canAdopt(st.nodes[parent].context, st.nodes[command].context)
                 THEN walk(this, link(st, command, parent), segs, i + 1, command)
                 ELSE [st |-> st, parent |-> parent, error |-> Error("INVALID_CONTEXT", 162)]
            ELSE walk(this, st, segs, i + 1, command)
       ELSE LET context == newContext(this, st, parent)
            IN IF isNoop(context)
               THEN [st |-> st, parent |-> parent, error |-> Error("INVALID_CONTEXT", 169)]
               ELSE LET made == newCommand(st, name, context)
                    IN walk(this, IF parent # NoCmd THEN link(made, name, parent) ELSE made,
                            segs, i + 1, name)

\* Context.command(rawName, config) called on the context `this`: the walk over
\* the path, then Object.assign(parent.config, config) unless the walk threw,
\* for a config record of the given ones
commandWith(this, path, configs) ==
  \E w \in {walk(this, [map |-> _commandMap, list |-> _commands, nodes |-> cmds], path, 1, NoCmd)} :
    /\ Len(w.st.list) <= MaxCmds
    /\ _commandMap' = w.st.map
    /\ _commands' = w.st.list
    /\ regErr' = w.error
    /\ IF w.error = NoError
       THEN \E config \in configs :
              cmds' = [w.st.nodes EXCEPT ![w.parent].config = ObjectAssign(@, config)]
       ELSE cmds' = w.st.nodes

command(this, path) == commandWith(this, path, PassedConfigs)

\* this.command(path), without description or config record
RegisterCommand ==
  /\ \E this \in CallerContexts, path \in Paths :
       commandWith(this, path, {[description |-> Undefined]})
  /\ UNCHANGED <<algVars, execVars>>

RegNext == RegisterCommand

\* the arguments after the path: a description or none (undefined), and a config
\* record that is empty or sets the authority
CommandArgs == [description : {Undefined, "d"}, config : {<<>>, [authority |-> 2]}]
\* the paths of one or two segments
CfgPaths == PathsOfLen(1) \cup PathsOfLen(2)
\* line 140: { description, ...args[0] }
configOf(args) == args.config @@ [description |-> args.description]
\* the command a call returns: the node of the last segment of the path
RECURSIVE returned(_, _, _)
returned(path, i, parent) ==
  IF i > Len(path) THEN parent
  ELSE returned(path, i + 1,
                IF path[i].sep = "." THEN Append(parent, path[i].word) ELSE <<path[i].word>>)

\* app.command(path, ...args), with the call recorded: its arguments in arg,
\* the command it returns (none when it throws) in ret
RegisterConfig ==
  /\ \E path \in CfgPaths, args \in CommandArgs :
       /\ commandWith(appContext, path, {configOf(args)})
       /\ arg' = args
       /\ ret' = [kind |-> "command",
                  command |-> IF regErr' = NoError THEN returned(path, 1, NoCmd) ELSE NoCmd]
  /\ op' = "command"
  /\ recv' = appContext
  /\ UNCHANGED execVars

CfgNext == RegisterConfig

(***************************************************************************)
(* Aliases: Command.alias and Command._registerAlias.                      *)
(***************************************************************************)
\* most names one command's _aliases holds
MaxAliases == 3

\* the names passed to alias, and name.toLowerCase()
RawAliases == {"a", "B", "c"}
toLowerCase(name) == IF name = "B" THEN "b" ELSE name
AliasArgs == {<<n>> : n \in RawAliases} \cup {<<n, m>> : n \in RawAliases, m \in RawAliases}

\* Command._registerAlias(name) on the command `this`: the name is pushed to
\* this._aliases before the lookup is consulted
registerAlias(st, this, rawName) ==
  LET name == <<toLowerCase(rawName)>>
      pushed == [st EXCEPT !.nodes[this].aliases = Append(@, name)]
  IN IF name \notin DOMAIN st.map
     THEN [st |-> [pushed EXCEPT !.map = (name :> this) @@ st.map], error |-> NoError]
     ELSE IF st.map[name] # this
     THEN [st |-> pushed, error |-> Error("DUPLICATE_COMMAND", 142)]
     ELSE [st |-> pushed, error |-> NoError]

\* Command.alias(...names): the for loop of lines 161-163 from name i on
RECURSIVE alias(_, _, _, _)
alias(st, this, names, i) ==
  IF i > Len(names) THEN [st |-> st, error |-> NoError]
  ELSE LET r == registerAlias(st, this, names[i])
       IN IF r.error # NoError THEN r ELSE alias(r.st, this, names, i + 1)

Alias ==
  /\ \E this \in DOMAIN cmds, names \in AliasArgs :
       \E r \in {alias([map |-> _commandMap, list |-> _commands, nodes |-> cmds], this, names, 1)} :
         /\ Len(r.st.nodes[this].aliases) <= MaxAliases
         /\ _commandMap' = r.st.map
         /\ cmds' = r.st.nodes
         /\ regErr' = r.error
  /\ UNCHANGED <<_commands, algVars, execVars>>

\* Context.command for a path of one segment
RegisterTop ==
  /\ \E this \in CallerContexts, path \in PathsOfLen(1) : command(this, path)
  /\ UNCHANGED <<algVars, execVars>>

AliasNext == RegisterTop \/ Alias


(***************************************************************************)
(* The execution pipeline: Command.execute.                                *)
(***************************************************************************)
\* most declared positional arguments; one more value than that can be supplied
MaxArgs == 1
\* command.ts line 48: maxUsage: Infinity, kept as a number above every count
Infinity == 1000

\* maxUsage and minInterval may be given as a function of the user: such a value
\* is kept as the number the function returns for the user of this model, with
\* its key listed in `functions`
defaultCommandConfig ==
  [checkArgCount |-> FALSE, checkUnknown |-> FALSE, checkRequired |-> FALSE,
   authority |-> 1, maxUsage |-> Infinity, minInterval |-> 0, showWarning |-> TRUE,
   functions |-> {}]

\* the configs a command is given: every combination of the three check switches,
\* with no usage limit, either value of showWarning and a minimum authority of 1
\* or 3, or with the defaults of these two and maxUsage given as a function that
\* returns 1
CommandConfigs ==
  {[defaultCommandConfig EXCEPT !.checkArgCount = a, !.checkUnknown = u, !.checkRequired = r,
                                !.showWarning = w, !.authority = au] :
     a \in BOOLEAN, u \in BOOLEAN, r \in BOOLEAN, w \in BOOLEAN, au \in {1, 3}}
  \cup
  {[defaultCommandConfig EXCEPT !.checkArgCount = a, !.checkUnknown = u, !.checkRequired = r,
                                !.maxUsage = 1, !.functions = {"maxUsage"}] :
     a \in BOOLEAN, u \in BOOLEAN, r \in BOOLEAN}

\* the configs of the commands whose usage is followed: no argument check, and
\* either no usage limit, maxUsage = 2 with minInterval = 1, or maxUsage given as
\* a function that returns 1
UsageConfigs ==
  {[checkArgCount |-> FALSE, checkUnknown |-> u, checkRequired |-> r, authority |-> au,
    maxUsage |-> l[1], minInterval |-> l[2], showWarning |-> w, functions |-> l[3]] :
     u \in BOOLEAN, r \in BOOLEAN, w \in BOOLEAN, au \in {1, 3},
     l \in {<<Infinity, 0, {}>>, <<2, 1, {}>>, <<1, 0, {"maxUsage"}>>}}

\* parseArguments(declaration): the required arguments first, then the optional
\* ones; the last one may be variadic or take the rest of the line (noSegment)
ArgsDefs ==
  {[i \in 1..n |-> [required |-> i <= r,
                    variadic |-> i = n /\ kind = "variadic",
                    noSegment |-> i = n /\ kind = "noSegment"]] :
     n \in 0..MaxArgs, r \in 0..MaxArgs, kind \in {"plain", "variadic", "noSegment"}}

\* the options of the command: a required one, one that needs authority 3, and
\* one that does not count as usage (each with one name, so camels[0] = longest)
CommandOptions ==
  << [name |-> "r", required |-> TRUE, authority |-> 0, notUsage |-> FALSE],
     [name |-> "h", required |-> FALSE, authority |-> 3, notUsage |-> FALSE],
     [name |-> "n", required |-> FALSE, authority |-> 0, notUsage |-> TRUE] >>
OptionNames == {CommandOptions[i].name : i \in DOMAIN CommandOptions}

NoUsage == [count |-> 0, last |-> FALSE]
NoArgv == [args |-> <<>>, options |-> {}, unknown |-> <<>>, hasUser |-> FALSE,
           handled |-> FALSE, usage0 |-> NoUsage]

\* utils.ts updateUsage: too frequent when the last counted call is no more than
\* minInterval ago (soon), exhausted when the count has reached maxUsage,
\* otherwise the call is counted
updateUsage(usage, maxUsage, minInterval, soon) ==
  IF minInterval > 0 /\ usage.last /\ soon
  THEN [message |-> "TOO_FREQUENT", usage |-> usage]
  ELSE IF usage.count >= maxUsage
  THEN [message |-> "USAGE_EXHAUSTED", usage |-> [usage EXCEPT !.last = TRUE]]
  ELSE [message |-> "none", usage |-> [count |-> usage.count + 1, last |-> TRUE]]

\* Command.getConfig(key, meta): the value, or what the function returns for
\* meta.$user
typeOf(key) == IF key \in node.config.functions THEN "function" ELSE "number"
getConfig(key) == node.config[key]

\* line 318: maxUsage < Infinity || minInterval > 0
usageAppliesMutant(maxUsage, minInterval) == minInterval > 0
usageApplies(maxUsage, minInterval) == maxUsage < Infinity \/ minInterval > 0

\* lines 301 and 306: a threshold above the user's authority
lowAuthorityMutant(threshold, authority) == threshold >= authority
lowAuthority(threshold, authority) == threshold > authority

\* the for loop of lines 304-311 over this._options, from option i on
RECURSIVE checkOptions(_, _, _)
checkOptions(i, options, isUsage) ==
  IF i > Len(node.options) THEN [message |-> "none", isUsage |-> isUsage]
  ELSE LET option == node.options[i]
       IN IF option.name \in options
          THEN IF lowAuthority(option.authority, user.authority)
               THEN [message |-> "LOW_AUTHORITY", isUsage |-> isUsage]
               ELSE checkOptions(i + 1, options, isUsage /\ ~option.notUsage)
          ELSE checkOptions(i + 1, options, isUsage)

\* Command._checkUser(meta, options): the message it returns, the usage record it
\* leaves, and whether it called updateUsage
checkUser(hasUser, options, soon) ==
  IF ~hasUser THEN [message |-> "none", usage |-> user.usage, updated |-> FALSE]
  ELSE IF lowAuthority(node.config.authority, user.authority)
  THEN [message |-> "LOW_AUTHORITY", usage |-> user.usage, updated |-> FALSE]
  ELSE LET o == checkOptions(1, options, TRUE)
       IN IF o.message # "none"
          THEN [message |-> o.message, usage |-> user.usage, updated |-> FALSE]
          ELSE IF o.isUsage
                  /\ usageApplies(getConfig("maxUsage"), getConfig("minInterval"))
          THEN LET u == updateUsage(user.usage, getConfig("maxUsage"), getConfig("minInterval"), soon)
               IN [message |-> u.message, usage |-> u.usage, updated |-> TRUE]
          ELSE [message |-> "none", usage |-> user.usage, updated |-> FALSE]

\* the loop of lines 101-106 over command._options, from option i on
RECURSIVE attachOptions(_, _, _)
attachOptions(i, options, should) ==
  IF i > Len(node.options) THEN should
  ELSE LET option == node.options[i]
       IN IF option.name \in options
          THEN attachOptions(i + 1, options,
                 [authority |-> should.authority \/ option.authority > 0,
                  usage |-> should.usage /\ ~option.notUsage])
          ELSE attachOptions(i + 1, options, should)

\* Command.attachUserFields(meta, userFields) for a command without declared
\* user fields: the fields requested after the call
attachUserFields(userFields, options) ==
  LET maxUsage == node.config.maxUsage
      minInterval == node.config.minInterval
      authority == node.config.authority
      shouldFetchAuthority == "authority" \notin userFields /\ authority > 0
      shouldFetchUsage ==
        /\ "usage" \notin userFields
        /\ \/ typeOf("maxUsage") = "number" /\ maxUsage < Infinity
           \/ typeOf("minInterval") = "number" /\ minInterval > 0
      should == attachOptions(1, options, [authority |-> shouldFetchAuthority,
                                           usage |-> shouldFetchUsage])
  IN userFields \cup (IF should.authority THEN {"authority"} ELSE {})
                \cup (IF should.usage THEN {"usage"} ELSE {})

\* lines 242-251: "pass", the hint to send, or the TypeError of reading
\* finalArg.noSegment when this._argsDef is empty
checkArgCount(args) ==
  IF ~node.config.checkArgCount THEN "pass"
  ELSE IF Len(args) + 1 \in DOMAIN node.argsDef /\ node.argsDef[Len(args) + 1].required
  THEN "INSUFFICIENT_ARGUMENTS"
  ELSE IF Len(args) > Len(node.argsDef)
  THEN IF Len(node.argsDef) = 0 THEN "TypeError"
       ELSE LET finalArg == node.argsDef[Len(node.argsDef)]
            IN IF ~finalArg.noSegment /\ ~finalArg.variadic
               THEN "REDUNANT_ARGUMENTS" ELSE "pass"
  ELSE "pass"

\* lines 254-256
checkUnknown(unknown) ==
  IF node.config.checkUnknown /\ Len(unknown) > 0 THEN "UNKNOWN_OPTIONS" ELSE "pass"

\* lines 259-266
checkRequiredMutant(options) == "pass"
checkRequired(options) ==
  IF node.config.checkRequired
     /\ \E i \in DOMAIN node.options :
          node.options[i].required /\ node.options[i].name \notin options
  THEN "REQUIRED_OPTIONS" ELSE "pass"

\* Command._sendHint(meta, message): what it adds to the trace
sendHint(message) ==
  <<<<"_sendHint", message>>>> \o
  (IF node.config.showWarning THEN <<<<"$send", message>>>> ELSE <<>>)

\* line 239: a truthy result of the 'before-command' hooks ends execute
abortsMutant(handled) == FALSE
aborts(handled) == handled

\* lines 241-274, run without suspension: the checks in order, each failure
\* returning through _sendHint; then the 'command' hooks are fired
checks(soon) ==
  LET a == checkArgCount(argv.args)
      k == checkUnknown(argv.unknown)
      q == checkRequired(argv.options)
      c == checkUser(argv.hasUser, argv.options, soon)
      called == <<<<"call", "_checkUser">>>> \o
                (IF c.updated THEN <<<<"call", "updateUsage">>>> ELSE <<>>)
  IN IF a = "TypeError"
     THEN [pc |-> "thrown", events |-> <<<<"throw", "finalArg">>>>, usage |-> user.usage]
     ELSE IF a # "pass"
     THEN [pc |-> "done", events |-> sendHint(a), usage |-> user.usage]
     ELSE IF k # "pass"
     THEN [pc |-> "done", events |-> sendHint(k), usage |-> user.usage]
     ELSE IF q # "pass"
     THEN [pc |-> "done", events |-> sendHint(q), usage |-> user.usage]
     ELSE IF c.message # "none"
     THEN [pc |-> "done", events |-> called \o sendHint(c.message), usage |-> c.usage]
     ELSE [pc |-> "command", events |-> called \o <<<<"emit", "command">>>>, usage |-> c.usage]

\* the values the parser hands over
ArgLists == {[i \in 1..n |-> "v"] : n \in 0..(MaxArgs + 1)}
UnknownLists == {<<>>, <<"x">>}

\* execute(argv) up to the await of the 'before-command' hooks (lines 234-239)
start(args, options, unknown, hasUser) ==
  /\ pc = "idle"
  /\ argv' = [args |-> args, options |-> options, unknown |-> unknown,
              hasUser |-> hasUser, handled |-> FALSE, usage0 |-> user.usage]
  /\ pc' = "before-command"
  /\ trace' = <<<<"emit", "before-command">>>>
  /\ UNCHANGED <<node, user, others, algVars, regVars>>

Execute ==
  \E args \in ArgLists, options \in SUBSET OptionNames, unknown \in UnknownLists,
     hasUser \in BOOLEAN :
    start(args, options, unknown, hasUser)

\* the 'before-command' hooks answer; unless they handled the invocation, the
\* checks run and the 'command' hooks are fired (lines 239-274)
BeforeCommandDone ==
  /\ pc = "before-command"
  /\ \E handled \in BOOLEAN, soon \in BOOLEAN :
       IF aborts(handled)
       THEN /\ argv' = [argv EXCEPT !.handled = TRUE]
            /\ pc' = "done"
            /\ UNCHANGED <<trace, user>>
       ELSE \E r \in {checks(soon)} :
              /\ pc' = r.pc
              /\ trace' = trace \o r.events
              /\ user' = [user EXCEPT !.usage = r.usage]
              /\ argv' = [argv EXCEPT !.handled = handled]
  /\ UNCHANGED <<node, others, algVars, regVars>>

\* the 'command' hooks are done: argv.next is set and the action is called
\* (lines 276-282); the action may call argv.next before it returns
CommandHooksDone ==
  /\ pc = "command"
  /\ IF node.hasAction
     THEN \E delegates \in BOOLEAN :
            /\ trace' = trace \o <<<<"call", "_action">>>> \o
                        (IF delegates THEN <<<<"call", "next">>>> ELSE <<>>)
            /\ pc' = "action"
     ELSE /\ trace' = Append(trace, <<"throw", "_action">>)
          /\ pc' = "thrown"
  /\ UNCHANGED <<node, user, argv, others, algVars, regVars>>

\* line 283: if (!skipped)
firesAfterCommandMutant(skipped) == TRUE
firesAfterCommand(skipped) == ~skipped

\* the action has returned: unless it called argv.next (skipped), the
\* 'after-command' hooks are fired (lines 283-285)
ActionDone ==
  /\ pc = "action"
  /\ LET skipped == \E i \in DOMAIN trace : trace[i] = <<"call", "next">>
     IN trace' = IF firesAfterCommand(skipped)
                 THEN Append(trace, <<"emit", "after-command">>) ELSE trace
  /\ pc' = "done"
  /\ UNCHANGED <<node, user, argv, others, algVars, regVars>>

\* the promise execute returned has settled; the next invocation can be executed
Settled ==
  /\ pc \in {"done", "thrown"}
  /\ pc' = "idle"
  /\ argv' = NoArgv
  /\ trace' = <<>>
  /\ UNCHANGED <<node, user, others, algVars, regVars>>

ExecNext == Execute \/ BeforeCommandDone \/ CommandHooksDone \/ ActionDone \/ Settled

(***************************************************************************)
(* Concurrent invocations of one command by one user.  The code between    *)
(* two awaits of execute runs without interruption; at an await the        *)
(* invocation is set aside and another one is started or resumed.          *)
(***************************************************************************)
\* most invocations by the user
MaxInvocations == 3

Invocation == [argv |-> argv, pc |-> pc, trace |-> trace]

\* an invocation by the user, without arguments or options
ExecuteUser ==
  /\ BagCardinality(others) < MaxInvocations
  /\ start(<<>>, {}, <<>>, TRUE)

\* the invocation waits at an await of execute, or has ended
Yield ==
  /\ pc # "idle"
  /\ others' = others (+) SetToBag({Invocation})
  /\ argv' = NoArgv
  /\ pc' = "idle"
  /\ trace' = <<>>
  /\ UNCHANGED <<node, user, algVars, regVars>>

\* what an invocation awaited has resolved
Resume ==
  /\ pc = "idle"
  /\ \E inv \in BagToSet(others) :
       /\ inv.pc \in {"before-command", "command", "action"}
       /\ others' = others (-) SetToBag({inv})
       /\ argv' = inv.argv
       /\ pc' = inv.pc
       /\ trace' = inv.trace
  /\ UNCHANGED <<node, user, algVars, regVars>>

ConcNext ==
  ExecuteUser \/ Yield \/ Resume \/ BeforeCommandDone \/ CommandHooksDone \/ ActionDone

\* a command with maxUsage = 1 and an action, and a user who has not used it
ConcInit ==
  /\ recv = appContext
  /\ arg = appContext
  /\ op = "new"
  /\ ret = CtxRet(appContext)
  /\ _commandMap = <<>>
  /\ _commands = <<>>
  /\ cmds = <<>>
  /\ regErr = NoError
  /\ node \in [config : {[defaultCommandConfig EXCEPT !.maxUsage = 1, !.showWarning = w] :
                            w \in BOOLEAN},
               argsDef : {<<>>}, options : {CommandOptions}, hasAction : {TRUE}]
  /\ user = [authority |-> 2, usage |-> NoUsage]
  /\ argv = NoArgv
  /\ pc = "idle"
  /\ trace = <<>>
  /\ others = EmptyBag

SpecConc == ConcInit /\ [][ConcNext]_vars

(***************************************************************************)
(* Resolution: Context.runCommand on the commands of the registry.         *)
(***************************************************************************)
\* app.group(id): the Context of the messages of one group
groupContext(id) == createContext([i \in 1..3 |-> IF i = 2 THEN <<Some({id}), Null>> ELSE noopScope[i]])
GroupCallers == {appContext, groupContext(1), groupContext(2)}

\* the paths "a", "a.b" and "a/b", and the names commands are run by
Seg(sep, word) == [sep |-> sep, word |-> word]
GroupPaths == {<<Seg("", "a")>>, <<Seg("", "a"), Seg(".", "b")>>, <<Seg("", "a"), Seg("/", "b")>>}
RunNames == GroupPaths \cup {<<Seg("", "b")>>}
GroupMetas == {meta \in Metas : meta.ctxType = "group"}

RegisterGroup ==
  /\ \E this \in GroupCallers, path \in GroupPaths : command(this, path)
  /\ UNCHANGED <<algVars, execVars>>

\* Command.action(callback); an invocation of the command that has not reached
\* line 280 yet will read the new this._action there
BindAction ==
  /\ \E this \in DOMAIN cmds :
       /\ ~cmds[this].action
       /\ cmds' = [cmds EXCEPT ![this].action = TRUE]
       /\ node' = IF pc # "idle" /\ argv.command = this
                  THEN [node EXCEPT !.hasAction = TRUE]
                  ELSE node
  /\ UNCHANGED <<_commandMap, _commands, regErr, algVars, user, argv, pc, trace, others>>

\* name.slice(name.lastIndexOf('/') + 1): the segments from the last one that
\* starts with '/' on (all of them when there is none), as a command name
RECURSIVE afterLastSlash(_, _)
afterLastSlash(name, i) ==
  IF i = 1 \/ name[i].sep = "/"
  THEN [k \in 1..(Len(name) - i + 1) |-> name[i + k - 1].word]
  ELSE afterLastSlash(name, i - 1)

\* Context._getCommandByRawName(name)
getCommandByRawName(name) ==
  LET key == afterLastSlash(name, Len(name))
  IN IF key \in DOMAIN _commandMap THEN _commandMap[key] ELSE NoCmd

\* lines 191 and 197: no command of the name, or one whose context does not
\* match the message (no command of this model sets the disable predicate)
notFoundMutant(found, meta) == found = NoCmd
notFound(found, meta) ==
  found = NoCmd \/ ~match(cmds[found].context, meta)

\* Context.runCommand(name, meta) for a message without user record, up to the
\* first await of command.execute
RunCommand ==
  /\ pc = "idle"
  /\ \E name \in RunNames, meta \in GroupMetas :
       LET found == getCommandByRawName(name)
           call == [name |-> name, meta |-> meta, command |-> found]
       IN IF notFound(found, meta)
          THEN /\ argv' = [call EXCEPT !.command = NoCmd] @@ NoArgv
               /\ trace' = <<<<"$send", "COMMAND_NOT_FOUND">>>>
               /\ pc' = "done"
               /\ UNCHANGED node
          ELSE /\ argv' = call @@ NoArgv
               /\ node' = [name |-> found,
                           config |-> [defaultCommandConfig EXCEPT
                                         !.authority = cmds[found].config.authority],
                           argsDef |-> <<>>, options |-> <<>>,
                           hasAction |-> cmds[found].action]
               /\ trace' = <<<<"emit", "before-command">>>>
               /\ pc' = "before-command"
  /\ UNCHANGED <<user, others, algVars, regVars>>

RunNext ==
  \/ RegisterGroup \/ BindAction \/ RunCommand
  \/ BeforeCommandDone \/ CommandHooksDone \/ ActionDone \/ Settled


ExecInit ==
  /\ recv = appContext
  /\ arg = appContext
  /\ op = "new"
  /\ ret = CtxRet(appContext)
  /\ _commandMap = <<>>
  /\ _commands = <<>>
  /\ cmds = <<>>
  /\ regErr = NoError
  /\ node \in [config : CommandConfigs, argsDef : ArgsDefs, options : {CommandOptions},
               hasAction : BOOLEAN]
  /\ user \in [authority : {2, 3}, usage : {NoUsage}]
  /\ argv = NoArgv
  /\ pc = "idle"
  /\ trace = <<>>
  /\ others = EmptyBag

SpecExec == ExecInit /\ [][ExecNext]_vars

\* invocations, without positional arguments, of a command that declares none
ExecuteUsage ==
  \E options \in SUBSET OptionNames, unknown \in UnknownLists, hasUser \in BOOLEAN :
    start(<<>>, options, unknown, hasUser)

UsageNext == ExecuteUsage \/ BeforeCommandDone \/ CommandHooksDone \/ ActionDone \/ Settled

UsageInit ==
  /\ recv = appContext
  /\ arg = appContext
  /\ op = "new"
  /\ ret = CtxRet(appContext)
  /\ _commandMap = <<>>
  /\ _commands = <<>>
  /\ cmds = <<>>
  /\ regErr = NoError
  /\ node \in [config : UsageConfigs, argsDef : {<<>>}, options : {CommandOptions},
               hasAction : BOOLEAN]
  /\ user \in [authority : {2, 3}, usage : {NoUsage}]
  /\ argv = NoArgv
  /\ pc = "idle"
  /\ trace = <<>>
  /\ others = EmptyBag

SpecUsage == UsageInit /\ [][UsageNext]_vars

\* the App after construction: it is the root Context and holds no command
Init ==
  /\ recv = appContext
  /\ arg = appContext
  /\ op = "new"
  /\ ret = CtxRet(appContext)
  /\ _commandMap = <<>>
  /\ _commands = <<>>
  /\ cmds = <<>>
  /\ regErr = NoError
  /\ node = [config |-> defaultCommandConfig, argsDef |-> <<>>, options |-> <<>>, hasAction |-> FALSE]
  /\ user = [authority |-> 1, usage |-> NoUsage]
  /\ argv = NoArgv
  /\ pc = "idle"
  /\ trace = <<>>
  /\ others = EmptyBag

Call(name, a, b, r) ==
  /\ recv' = a
  /\ arg' = b
  /\ op' = name
  /\ ret' = r
  /\ UNCHANGED <<regVars, execVars>>

Inverse == \E a \in Receivers : Call("inverse", a, a, CtxRet(inverse(a)))
Plus == \E a \in Receivers, b \in Arguments : Call("plus", a, b, CtxRet(plus(a, b)))
Minus == \E a \in Receivers, b \in Arguments : Call("minus", a, b, CtxRet(minus(a, b)))
Intersect == \E a \in Receivers, b \in Arguments : Call("intersect", a, b, CtxRet(intersect(a, b)))
Contain == \E a \in Receivers, b \in Arguments : Call("contain", a, b, BoolRet(contain(a, b)))

\* ContextScope.parse(identifier) of a Context's own identifier, and the Context
\* made of the scope it returns
ErrRet(message) == [kind |-> "error", message |-> message]
Parse ==
  \E a \in Receivers :
    \E r \in {parse(identifier(a))} :
      Call("parse", a, a, IF r.ok THEN CtxRet(createContext(r.scope))
                          ELSE ErrRet("INVALID_IDENTIFIER"))

AlgNext == Inverse \/ Plus \/ Minus \/ Intersect \/ Contain \/ Parse

Spec == Init /\ [][AlgNext]_vars
SpecReg == Init /\ [][RegNext]_vars
SpecAlias == Init /\ [][AliasNext]_vars
SpecCfg == Init /\ [][CfgNext]_vars

(***************************************************************************)
(* Options: Command.option and Command.removeOption on one command.  An    *)
(* option object is [id, names]: objects are compared by identity, which   *)
(* is the number of the option call that made them.                        *)
(***************************************************************************)
MaxOptions == 3

\* the flag names parseOption reads from a raw option name
Flags == {"x", "y"}
FlagLists == {<<"x">>, <<"y">>, <<"x", "y">>, <<"y", "x">>}
\* the names removeOption is called with: a flag name after 0 to 2 dashes
RawFlags == [dashes : 0..2, name : Flags]
\* name.replace(/^-+/, '')
stripDashes(raw) == raw.name

\* the loop of lines 199-204 over option.names, from name i on
RECURSIVE bindNames(_, _, _)
bindNames(optsDef, option, i) ==
  IF i > Len(option.names) THEN [optsDef |-> optsDef, error |-> NoError]
  ELSE IF option.names[i] \in DOMAIN optsDef
  THEN [optsDef |-> optsDef, error |-> Error("DUPLICATE_OPTION", 201)]
  ELSE bindNames((option.names[i] :> option.id) @@ optsDef, option, i + 1)

\* Command.option(rawName)
Option ==
  /\ node.created < MaxOptions
  /\ \E names \in FlagLists :
       LET option == [id |-> node.created + 1, names |-> names]
           bound == bindNames(node.optsDef, option, 1)
       IN /\ node' = [node EXCEPT !.created = @ + 1,
                                  !.options = Append(@, option),
                                  !.optsDef = bound.optsDef]
          /\ regErr' = bound.error
  /\ UNCHANGED <<_commandMap, _commands, cmds, user, argv, pc, trace, others, algVars>>

\* this._options.indexOf(option): 0 stands for the -1 of a missing option
indexOf(options, id) ==
  IF \E i \in DOMAIN options : options[i].id = id
  THEN CHOOSE i \in DOMAIN options :
         options[i].id = id /\ \A j \in 1..(i - 1) : options[j].id # id
  ELSE 0
\* this._options.splice(index, 1): index -1 removes the last element
splice(options, index) ==
  LET at == IF index = 0 THEN Len(options) ELSE index
  IN [i \in 1..(Len(options) - 1) |-> IF i < at THEN options[i] ELSE options[i + 1]]

\* Command.removeOption(name)
RemoveOption ==
  /\ \E raw \in RawFlags :
       LET name == stripDashes(raw)
       IN IF name \notin DOMAIN node.optsDef
          THEN UNCHANGED node
          ELSE LET id == node.optsDef[name]
                   option == CHOOSE o \in {node.options[i] : i \in DOMAIN node.options} : o.id = id
                   names == {option.names[i] : i \in DOMAIN option.names}
               IN node' = [node EXCEPT
                             !.optsDef = [n \in DOMAIN @ \ names |-> @[n]],
                             !.options = splice(@, indexOf(@, id))]
  /\ regErr' = NoError
  /\ UNCHANGED <<_commandMap, _commands, cmds, user, argv, pc, trace, others, algVars>>

OptNext == Option \/ RemoveOption

\* a command that has just been constructed
OptInit ==
  /\ recv = appContext
  /\ arg = appContext
  /\ op = "new"
  /\ ret = CtxRet(appContext)
  /\ _commandMap = <<>>
  /\ _commands = <<>>
  /\ cmds = <<>>
  /\ regErr = NoError
  /\ node = [config |-> defaultCommandConfig, argsDef |-> <<>>, options |-> <<>>,
             optsDef |-> <<>>, created |-> 0, hasAction |-> FALSE]
  /\ user = [authority |-> 1, usage |-> NoUsage]
  /\ argv = NoArgv
  /\ pc = "idle"
  /\ trace = <<>>
  /\ others = EmptyBag

SpecOpt == OptInit /\ [][OptNext]_vars
SpecRun == Init /\ [][RunNext]_vars

\* C1: a.intersect(b) matches an event identity exactly when a and b both match it
C1_IntersectMatch ==
  op = "intersect" => \A x \in Metas : match(ret.ctx, x) = (match(recv, x) /\ match(arg, x))

FormOf(sub) == IF Truthy(sub[1]) THEN "include" ELSE "exclude"

\* an include-form and an exclude-form operand meet, both with ids in their lists
C1_Witness ==
  /\ op = "intersect"
  /\ \E i \in 1..3 :
       /\ FormOf(recv.scope[i]) = "include" /\ Val(recv.scope[i][1]) = {1, 2}
       /\ FormOf(arg.scope[i]) = "exclude" /\ Val(arg.scope[i][2]) = {2}
  /\ \E x \in Metas : match(ret.ctx, x)

\* C2: a.plus(b) matches an event identity exactly when a or b matches it
C2_PlusMatch ==
  op = "plus" => \A x \in Metas : match(ret.ctx, x) = (match(recv, x) \/ match(arg, x))

\* two exclude-form operands with different ids in their lists
C2_Witness ==
  /\ op = "plus"
  /\ \E i \in 1..3 :
       /\ FormOf(recv.scope[i]) = "exclude" /\ Val(recv.scope[i][2]) = {1, 2}
       /\ FormOf(arg.scope[i]) = "exclude" /\ Val(arg.scope[i][2]) = {2}

\* C3: a.inverse() matches an event identity exactly when a does not, also when a
\* is itself the result of inverse; inverting twice matches what a matches
C3_InverseMatch ==
  op = "inverse" =>
    \A x \in Metas :
      /\ match(ret.ctx, x) = ~match(recv, x)
      /\ match(inverse(ret.ctx), x) = match(recv, x)

\* the receiver is the result of inverting an exclude-form scope
C3_Witness ==
  /\ op = "inverse"
  /\ recv.scope[1] = <<Some({1}), Some({})>>
  /\ ret.ctx.scope[1] = <<Null, Some({1})>>

\* C4: when a.contain(b) is true, every event identity b matches is matched by a
C4_ContainSound ==
  (op = "contain" /\ ret.val) => \A x \in Metas : match(arg, x) => match(recv, x)

\* contain answered true for two different exclude-form scopes
C4_Witness ==
  /\ op = "contain" /\ ret.val
  /\ \E i \in 1..3 :
       /\ FormOf(recv.scope[i]) = "exclude" /\ Val(recv.scope[i][2]) = {1}
       /\ FormOf(arg.scope[i]) = "exclude" /\ Val(arg.scope[i][2]) = {1, 2}

\* C13: parsing the identifier of a Context reached through the algebra succeeds
\* and gives a scope with the same identifier
C13_RoundTrip ==
  op = "parse" => (ret.kind = "ctx" /\ identifier(ret.ctx) = identifier(recv))

\* C14: every Context the algebra or parse returns has, for each identity type,
\* exactly one of include and exclude non-null
C14_ExactlyOneNonNull ==
  ret.kind = "ctx" =>
    \A i \in 1..3 : Truthy(ret.ctx.scope[i][1]) # Truthy(ret.ctx.scope[i][2])

\* C20: a.minus(b) matches an event identity exactly when a matches it and b does
\* not, which is also what a.intersect(b.inverse()) matches
C20_MinusMatch ==
  op = "minus" =>
    \A x \in Metas :
      /\ match(ret.ctx, x) = (match(recv, x) /\ ~match(arg, x))
      /\ match(ret.ctx, x) = match(intersect(recv, inverse(arg)), x)

\* two exclude-form operands with different ids in their lists, and a result that
\* matches something
C20_Witness ==
  /\ op = "minus"
  /\ \E i \in 1..3 :
       /\ FormOf(recv.scope[i]) = "exclude" /\ Val(recv.scope[i][2]) = {1}
       /\ FormOf(arg.scope[i]) = "exclude" /\ Val(arg.scope[i][2]) = {1, 2}
  /\ \E x \in Metas : match(ret.ctx, x)

\* C5: every command that has a parent matches only event identities its parent matches
C5_ChildInParent ==
  \A n \in DOMAIN cmds :
    cmds[n].parent # NoCmd =>
      \A x \in Metas : match(cmds[n].context, x) => match(cmds[cmds[n].parent].context, x)

\* a command registered from a narrower context was linked under a wider parent
C5_Witness ==
  \E n \in DOMAIN cmds :
    /\ cmds[n].parent # NoCmd
    /\ cmds[n].context # cmds[cmds[n].parent].context
    /\ regErr = NoError

\* what the segment s of a path names under the command parent
NameOf(s, parent) == IF s.sep = "." THEN Append(parent, s.word) ELSE <<s.word>>
MatchesNothing(context) == \A x \in Metas : ~match(context, x)
Registry == [map |-> _commandMap, list |-> _commands, nodes |-> cmds]

\* C16: a call whose first segment is new and whose calling Context matches
\* nothing, or whose first segment exists and whose second is new with a calling
\* Context that shares no identity with that parent's, fails with the context
\* error; and no registered command is bound to a Context that matches no identity
C16_NoNoopCommand ==
  /\ \A n \in DOMAIN cmds : ~MatchesNothing(cmds[n].context)
  /\ \A this \in CallerContexts \cup {intersect(userContext(1), userContext(2))},
        path \in PathsOfLen(1) :
       (NameOf(path[1], NoCmd) \notin DOMAIN _commandMap /\ MatchesNothing(this))
         => walk(this, Registry, path, 1, NoCmd).error.message = "INVALID_CONTEXT"
  /\ \A this \in CallerContexts, path \in PathsOfLen(2) :
       LET first == NameOf(path[1], NoCmd)
       IN (/\ first \in DOMAIN _commandMap
           /\ NameOf(path[2], _commandMap[first]) \notin DOMAIN _commandMap
           /\ \A x \in Metas : ~(match(this, x) /\ match(cmds[_commandMap[first]].context, x)))
            => walk(this, Registry, path, 1, NoCmd).error.message = "INVALID_CONTEXT"

\* a registration was refused at line 169 while the registry holds a command
C16_Witness ==
  /\ regErr = Error("INVALID_CONTEXT", 169)
  /\ _commands # <<>>

\* C6: a call that fails the containment check of line 158 leaves the registry as
\* it was before the call
C6_RejectedBeforeMutation ==
  [][regErr' = Error("INVALID_CONTEXT", 162) =>
       (_commandMap' = _commandMap /\ _commands' = _commands /\ cmds' = cmds)]_vars
\* C17: an alias call never rebinds a name that is bound, and after every alias
\* call, failed ones included, each name in a command's alias list is bound to
\* that command in the global lookup
C17_AliasesResolve ==
  [][/\ \A name \in DOMAIN _commandMap :
          name \in DOMAIN _commandMap' /\ _commandMap'[name] = _commandMap[name]
      /\ \A n \in DOMAIN cmds' :
          \A i \in DOMAIN cmds'[n].aliases :
            /\ cmds'[n].aliases[i] \in DOMAIN _commandMap'
            /\ _commandMap'[cmds'[n].aliases[i]] = n]_vars

\* what the trace of the invocation holds
Did(kind, what) == \E i \in DOMAIN trace : trace[i] = <<kind, what>>
Sent == SelectSeq(trace, LAMBDA e : e[1] = "$send")
Hinted == SelectSeq(trace, LAMBDA e : e[1] = "_sendHint")
\* execute is past its checks (the 'before-command' hooks did not handle the invocation)
PastChecks == pc \in {"command", "action", "done", "thrown"} /\ ~argv.handled

\* the checks as the pipeline is described, read off the command and the invocation
Insufficient ==
  /\ node.config.checkArgCount
  /\ Len(argv.args) < Len(node.argsDef)
  /\ node.argsDef[Len(argv.args) + 1].required
Redundant ==
  /\ node.config.checkArgCount
  /\ Len(argv.args) > Len(node.argsDef)
  /\ \A i \in DOMAIN node.argsDef :
       i = Len(node.argsDef) => ~node.argsDef[i].variadic /\ ~node.argsDef[i].noSegment
UnknownGiven == node.config.checkUnknown /\ argv.unknown # <<>>
RequiredAbsent ==
  /\ node.config.checkRequired
  /\ \E i \in DOMAIN node.options :
       node.options[i].required /\ node.options[i].name \notin argv.options
AuthorityTooLow ==
  /\ argv.hasUser
  /\ \/ node.config.authority > user.authority
     \/ \E i \in DOMAIN node.options :
          node.options[i].name \in argv.options /\ node.options[i].authority > user.authority
FirstFailure ==
  IF Insufficient THEN "INSUFFICIENT_ARGUMENTS"
  ELSE IF Redundant THEN "REDUNANT_ARGUMENTS"
  ELSE IF UnknownGiven THEN "UNKNOWN_OPTIONS"
  ELSE IF RequiredAbsent THEN "REQUIRED_OPTIONS"
  ELSE IF AuthorityTooLow THEN "LOW_AUTHORITY"
  ELSE "none"
NothingAfterChecks ==
  ~Did("emit", "command") /\ ~Did("call", "_action") /\ ~Did("emit", "after-command")

\* C7: of the checks that fail for an invocation only the first in the order
\* argument count, unknown options, required options, authority/usage is reported
\* (one hint when showWarning is set, none otherwise), and nothing runs after it
C7_FirstFailureOnly ==
  PastChecks =>
    /\ FirstFailure # "none" =>
         /\ Sent = IF node.config.showWarning THEN <<<<"$send", FirstFailure>>>> ELSE <<>>
         /\ NothingAfterChecks
         /\ FirstFailure # "LOW_AUTHORITY" => ~Did("call", "_checkUser")
         /\ ~Did("call", "updateUsage")
    /\ Hinted # <<>> => Len(Hinted) = 1 /\ NothingAfterChecks

\* C8: once the 'before-command' hooks handled the invocation nothing else happens:
\* no check, no hint, no usage counted, no hook, no action
C8_HandledAborts ==
  argv.handled =>
    /\ pc = "done"
    /\ trace = <<<<"emit", "before-command">>>>
    /\ user.usage = argv.usage0

\* the handled invocation would have failed a check and been counted
C8_Witness ==
  /\ argv.handled /\ pc = "done"
  /\ Insufficient /\ node.config.showWarning
  /\ argv.hasUser /\ getConfig("maxUsage") = 1

\* C9: with a user record, _checkUser answers 'low authority' exactly when the
\* command's or a present option's authority exceeds the user's; without a user
\* record nothing is gated or counted and execute goes on to the 'command' hooks
\* and to the call of the action in line 282
C9_AuthorityGate ==
  Did("call", "_checkUser") =>
    IF argv.hasUser
    THEN Did("_sendHint", "LOW_AUTHORITY") <=> AuthorityTooLow
    ELSE /\ Hinted = <<>>
         /\ ~Did("call", "updateUsage")
         /\ user.usage = argv.usage0
         /\ Did("emit", "command")
         /\ pc # "command" =>
              IF node.hasAction THEN Did("call", "_action") ELSE Did("throw", "_action")

\* a user of authority 3 passed a command of authority 3 with the authority-3 option
C9_Witness ==
  /\ Did("call", "_checkUser") /\ argv.hasUser
  /\ node.config.authority = 3 /\ user.authority = 3 /\ "h" \in argv.options
  /\ Did("call", "_action")

\* C10: with checkArgCount the argument check ends in the 'insufficient' hint, the
\* 'redundant' hint or a pass, as the declared and supplied arguments say, and
\* never in a raised error
C10_ArgCountOutcome ==
  (PastChecks /\ node.config.checkArgCount) =>
    /\ ~Did("throw", "finalArg")
    /\ Insufficient <=> Did("_sendHint", "INSUFFICIENT_ARGUMENTS")
    /\ (~Insufficient /\ Redundant) <=> Did("_sendHint", "REDUNANT_ARGUMENTS")

\* C18: once the action has been called and has returned, the 'after-command'
\* hooks have been fired exactly when the action did not call argv.next; when it
\* did, the outer continuation was called and the hooks were not fired
C18_AfterCommandUnlessDelegated ==
  (pc = "done" /\ Did("call", "_action")) =>
    /\ Did("emit", "after-command") <=> ~Did("call", "next")
    /\ Len(SelectSeq(trace, LAMBDA e : e = <<"emit", "after-command">>)) <= 1

\* an action that delegated has returned
C18_Witness ==
  /\ pc = "done" /\ Did("call", "_action") /\ Did("call", "next")
  /\ ~Did("emit", "after-command")

\* the invocation reached the usage gate and was not turned away as too frequent
Counted ==
  /\ Did("call", "updateUsage")
  /\ ~Did("_sendHint", "TOO_FREQUENT")

\* C12: with a finite maxUsage, an invocation that reaches the usage gate (and is
\* not too frequent) passes it and is counted while fewer than maxUsage earlier
\* ones were counted, and is answered 'usage exhausted' from then on, so the
\* count never exceeds maxUsage; an invocation with a present notUsage option is
\* neither counted nor rejected by the gate
C12_UsageLimit ==
  /\ user.usage.count <= getConfig("maxUsage")
  /\ Counted =>
       IF argv.usage0.count < getConfig("maxUsage")
       THEN /\ user.usage.count = argv.usage0.count + 1
            /\ Hinted = <<>>
            /\ Did("emit", "command")
            /\ (pc = "done" /\ node.hasAction) => Did("call", "_action")
       ELSE /\ user.usage.count = argv.usage0.count
            /\ Hinted = <<<<"_sendHint", "USAGE_EXHAUSTED">>>>
            /\ NothingAfterChecks
  /\ (Did("call", "_checkUser") /\ argv.hasUser /\ getConfig("maxUsage") < Infinity
      /\ ~Did("_sendHint", "LOW_AUTHORITY"))
        => (Did("call", "updateUsage") <=> "n" \notin argv.options)
  /\ (Did("call", "_checkUser") /\ "n" \in argv.options) =>
       /\ user.usage = argv.usage0
       /\ ~Did("_sendHint", "USAGE_EXHAUSTED")

\* the third counted invocation of a command with maxUsage = 2 was rejected
C12_Witness ==
  /\ Counted /\ getConfig("maxUsage") = 2
  /\ argv.usage0.count = 2
  /\ Did("_sendHint", "USAGE_EXHAUSTED")

\* C19: the user fields attachUserFields requests cover what _checkUser reads:
\* 'usage' when _checkUser calls updateUsage, 'authority' when the command or a
\* present option has an authority above 0
C19_FieldsSuffice ==
  (Did("call", "_checkUser") /\ argv.hasUser) =>
    \A userFields \in SUBSET {"authority", "usage"} :
      LET fields == attachUserFields(userFields, argv.options)
      IN /\ Did("call", "updateUsage") => "usage" \in fields
         /\ (\/ node.config.authority > 0
             \/ \E i \in DOMAIN node.options :
                  node.options[i].name \in argv.options /\ node.options[i].authority > 0)
              => "authority" \in fields

\* the invocations of the user: the one that runs and the others, with how many
\* of them there are of each kind
Invocations ==
  IF pc = "idle" THEN others ELSE others (+) SetToBag({Invocation})
DidIn(inv, kind, what) == \E i \in DOMAIN inv.trace : inv.trace[i] = <<kind, what>>
HowMany(P(_)) ==
  BagCardinality([inv \in {i \in BagToSet(Invocations) : P(i)} |-> CopiesIn(inv, Invocations)])
PassedGate(inv) == DidIn(inv, "call", "updateUsage") /\ DidIn(inv, "emit", "command")
Exhausted(inv) == DidIn(inv, "call", "updateUsage") /\ DidIn(inv, "_sendHint", "USAGE_EXHAUSTED")
ReachedGate(inv) == DidIn(inv, "call", "_checkUser")

\* C11: of the concurrent invocations by one user of a command with maxUsage = 1,
\* however they interleave at the awaits of execute, exactly one of those that
\* reach the usage gate passes it and goes on to the action, and every other one
\* is answered 'usage exhausted' and goes no further
C11_ExactlyOnePasses ==
  /\ HowMany(ReachedGate) > 0 => HowMany(PassedGate) = 1
  /\ HowMany(Exhausted) = HowMany(ReachedGate) - HowMany(PassedGate)
  /\ \A inv \in BagToSet(Invocations) :
       /\ (PassedGate(inv) /\ inv.pc = "done") => DidIn(inv, "call", "_action")
       /\ DidIn(inv, "call", "_action") => PassedGate(inv)
       /\ Exhausted(inv) =>
            (inv.pc = "done" /\ ~DidIn(inv, "emit", "command") /\ ~DidIn(inv, "call", "_action"))

\* three invocations were started before any of them was counted; one has run the
\* action and the two others were rejected
C11_Witness ==
  /\ HowMany(ReachedGate) = 3
  /\ \A inv \in BagToSet(Invocations) : inv.argv.usage0.count = 0
  /\ HowMany(Exhausted) = 2
  /\ \E inv \in BagToSet(Invocations) : PassedGate(inv) /\ inv.pc = "done"

\* "a" and then "a.b" were registered from the Context of group g, and nothing else
Registered(g) ==
  /\ DOMAIN cmds = {<<"a">>, <<"a", "b">>}
  /\ cmds[<<"a">>].context = groupContext(g)
  /\ cmds[<<"a", "b">>].context = groupContext(g)
  /\ cmds[<<"a", "b">>].parent = <<"a">>
\* a step that is runCommand(name, meta) for a message of the group
Runs(name, group) ==
  /\ pc = "idle" /\ pc' # "idle"
  /\ argv'.name = name
  /\ argv'.meta = [ctxType |-> "group", ctxId |-> group]
\* what the step does
NotResolved ==
  /\ argv'.command = NoCmd
  /\ trace' = <<<<"$send", "COMMAND_NOT_FOUND">>>>
  /\ pc' = "done"
ResolvedTo(found) ==
  /\ argv'.command = found
  /\ node'.name = found
  /\ trace' = <<<<"emit", "before-command">>>>
  /\ pc' = "before-command"
\* an invocation of the command, once over, has called the action bound to it
\* unless a 'before-command' hook handled it
ActionCalled(found) ==
  (pc' = "done" /\ argv'.command = found /\ ~argv'.handled /\ node'.hasAction)
    => \E i \in DOMAIN trace' : trace'[i] = <<"call", "_action">>

\* C15 as stated: run by the path a/b, the command registered by "a.b" is found
\* and executed for a message of group g, and is not found for a message of
\* another group
C15_ResolvesBySlashPath ==
  [][\A g \in {1, 2}, group \in EventIds :
       /\ (Registered(g) /\ Runs(<<Seg("", "a"), Seg("/", "b")>>, group)) =>
            IF group = g THEN ResolvedTo(<<"a", "b">>) ELSE NotResolved
       /\ ActionCalled(<<"a", "b">>)]_vars

\* C15 amended: run by the name a.b, the command registered by "a.b" is found and
\* executed for a message of group g, and is not found for a message of another
\* group
C15_ResolvesByName ==
  [][\A g \in {1, 2}, group \in EventIds :
       /\ (Registered(g) /\ Runs(<<Seg("", "a"), Seg(".", "b")>>, group)) =>
            IF group = g THEN ResolvedTo(<<"a", "b">>) ELSE NotResolved
       /\ ActionCalled(<<"a", "b">>)]_vars

\* the action of a.b has run for a message of its group
C15_Witness ==
  /\ Registered(1)
  /\ pc = "done" /\ Did("call", "_action")
  /\ argv.name = <<Seg("", "a"), Seg(".", "b")>>
  /\ argv.meta = [ctxType |-> "group", ctxId |-> 1]
  /\ argv.command = <<"a", "b">>

\* C21: updateUsage is called at most once per invocation, and only when the
\* 'before-command' hooks did not handle the invocation and the argument-count,
\* unknown-option, required-option and authority checks all passed; an invocation
\* that was handled or that fails one of these checks leaves the usage record of
\* the user as it was
C21_UsageAfterChecks ==
  pc # "idle" =>
    /\ Len(SelectSeq(trace, LAMBDA e : e = <<"call", "updateUsage">>)) <= 1
    /\ Did("call", "updateUsage") => (~argv.handled /\ FirstFailure = "none")
    /\ (argv.handled \/ FirstFailure # "none") => user.usage = argv.usage0

\* an invocation that passed all three enabled checks was counted
C21_Witness ==
  /\ Did("call", "updateUsage")
  /\ node.config.checkArgCount /\ node.config.checkUnknown /\ node.config.checkRequired
  /\ user.usage.count = argv.usage0.count + 1

\* the node reached from a command by following parent references k times
RECURSIVE ancestorAt(_, _)
ancestorAt(name, k) ==
  IF k = 0 \/ name = NoCmd THEN name ELSE ancestorAt(cmds[name].parent, k - 1)
OwnAncestor(name) == \E k \in 1..Cardinality(DOMAIN cmds) : ancestorAt(name, k) = name
TimesIn(list, name) == Cardinality({i \in DOMAIN list : list[i] = name})
ChildrenAgree ==
  \A name \in DOMAIN cmds, p \in DOMAIN cmds :
    /\ TimesIn(cmds[p].children, name) <= 1
    /\ cmds[name].parent = p <=> TimesIn(cmds[p].children, name) = 1

\* C22: after any sequence of registrations, failed ones included, the parent
\* relation is a forest: no command is its own ancestor, and a command is in the
\* children of p, once, exactly when its parent is p
C22_Forest ==
  /\ \A name \in DOMAIN cmds : ~OwnAncestor(name)
  /\ ChildrenAgree

\* the option list and the flag-name map of the command agree
NamesBound(n) ==
  \A i \in DOMAIN n.options : \A k \in DOMAIN n.options[i].names :
    /\ n.options[i].names[k] \in DOMAIN n.optsDef
    /\ n.optsDef[n.options[i].names[k]] = n.options[i].id
BoundListed(n) ==
  \A name \in DOMAIN n.optsDef : \E i \in DOMAIN n.options : n.options[i].id = n.optsDef[name]
\* the ids of the options in the list
Listed(n) == {n.options[i].id : i \in DOMAIN n.options}

\* C23: after any option or removeOption call, failed option calls included,
\* every option in the list has each of its flag names bound to itself, every
\* bound flag name is bound to an option in the list, and a flag name that a
\* removeOption call unbinds was bound to the option the call removed
C23_OptionsAgree ==
  [][/\ NamesBound(node')
     /\ BoundListed(node')
     /\ \A name \in DOMAIN node.optsDef \ DOMAIN node'.optsDef :
          node.optsDef[name] \in Listed(node) \ Listed(node')]_vars

\* the keys the caller passed: those of the config record, and description when
\* a description was given
PassedKeys(args) ==
  DOMAIN args.config \cup (IF args.description # Undefined THEN {"description"} ELSE {})
PassedValue(args, key) ==
  IF key \in DOMAIN args.config THEN args.config[key] ELSE args.description

\* C24: a call whose terminal node existed already gives that node the passed
\* value for every key of the passed record and leaves every other key of its
\* config, description included when none is passed, and the config of every
\* other node as it was
C24_ConfigMerge ==
  [][(op' = "command" /\ ret'.command \in DOMAIN cmds) =>
       /\ \A key \in DOMAIN cmds[ret'.command].config :
            cmds'[ret'.command].config[key] =
              IF key \in PassedKeys(arg') THEN PassedValue(arg', key)
              ELSE cmds[ret'.command].config[key]
       /\ \A other \in DOMAIN cmds \ {ret'.command} :
            cmds'[other].config = cmds[other].config]_vars

\* C25: an invocation of a command without bound action that has passed every
\* enabled check raises no error: once the 'command' hooks are done, execute
\* completes and has fired the 'after-command' hooks
C25_NoActionCompletes ==
  (~node.hasAction /\ Did("emit", "command") /\ pc # "command") =>
    /\ ~Did("throw", "_action")
    /\ pc = "done"
    /\ Did("emit", "after-command")
====
